---- MODULE Spec2Model ----
(***************************************************************************)
(* A model of the Backtester class of src/src/backtester.py: the portfolio *)
(* ledger (cash, stock, options), execute_trade, the rate-limited          *)
(* get_agent_decision, the options entry and settlement, and the           *)
(* run_backtest day loop.                                                  *)
(*                                                                         *)
(* Money is modelled in whole dollars and time in whole seconds; dates are *)
(* calendar-day numbers (the code converts "%Y-%m-%d" strings to datetime  *)
(* before it compares or adds days, so only the day number matters).       *)
(* Python dicts are functions whose DOMAIN is the set of keys present.     *)
(***************************************************************************)
EXTENDS Integers, Sequences, FiniteSets, TLC

VARIABLES
    cash,               \* self.portfolio["cash"]
    stock,              \* self.portfolio["stock"]
    options,            \* self.portfolio["options"], in entry order
    portfolio_values,   \* self.portfolio_values
    options_trades,     \* self.options_trades
    api_call_count,     \* self._api_call_count
    api_window_start,   \* self._api_window_start
    last_api_call,      \* self._last_api_call (0: no call yet)
    now,                \* the clock read by time.time()
    pc,                 \* the position of the running method
    attempt,            \* the loop variable of get_agent_decision
    output,             \* what get_agent_decision returned
    current_date_str,   \* run_backtest's current_date_str
    open_price,         \* run_backtest's current_price, df.iloc[0]['open']
    options_value,      \* run_backtest's options_value
    nyse,               \* self.nyse: the sessions of the market calendar
    last,               \* the last completed call: arguments, state before, return value
    hist                \* what the calls did so far (invocation times, sleeps, settlements)

vars == <<cash, stock, options, portfolio_values, options_trades, api_call_count,
          api_window_start, last_api_call, now, pc, attempt, output, current_date_str,
          open_price, options_value, nyse, last, hist>>

portfolioVars == <<cash, stock, options>>
apiVars == <<api_call_count, api_window_start, last_api_call, now, attempt, output>>
clockVars == <<api_call_count, api_window_start, last_api_call, now>>
loopVars == <<current_date_str, open_price, options_value>>

----------------------------------------------------------------------------
(* Bounds of the model *)

MaxCapital == 6
MaxStock == 2
MaxCalls == 3
MaxQty == 4
MaxPrice == 3
StartDate == 1
EndDate == 4


Actions == {"buy", "sell", "hold", "short"}
Quantities == (0 - 1)..MaxQty
Prices == 1..MaxPrice
InitialCapitals == 1..MaxCapital

NoCall == [op |-> "none"]
NoHist == [invocations |-> <<>>, calls |-> 0, afc |-> 0, other |-> 0,
           backoffs |-> <<>>, waited |-> 0, settled |-> {}, simulated |-> {},
           priced |-> {}, onlyHold |-> TRUE, asked |-> {},
           delivered |-> [kind |-> "none"]]

Min(a, b) == IF a <= b THEN a ELSE b
Max(a, b) == IF a >= b THEN a ELSE b

\* The days of get_previous_trading_day's lookback window (line 141).
Lookback == 10

\* The days the calendars of the model speak of.
CalendarDays == (StartDate - 2 * Lookback)..(EndDate + 1)

\* The ordinary calendar: weeks of five sessions, days 6 and 7 of each week
\* closed; it reaches back before the first date of the backtest.
Weekdays == {d \in CalendarDays : (d % 7) \notin {6, 0}}

\* A calendar that reopens on the day after StartDate, after a closure longer
\* than the lookback window.
Reopening == {d \in Weekdays : d > StartDate \/ d < StartDate - Lookback}

----------------------------------------------------------------------------
(* Backtester.execute_trade *)

\* A buy that ignores the cash constraint.
BuyQuantity_NoCap(quantity, current_price, c) == quantity

\* The quantity a buy executes: the whole request when its cost fits in the
\* cash, else int(cash // current_price) when that is positive, else 0.
BuyQuantity(quantity, current_price, c) ==
    IF quantity * current_price <= c
    THEN quantity
    ELSE LET max_quantity == c \div current_price
         IN  IF max_quantity > 0 THEN max_quantity ELSE 0

\* A sell that ignores the holdings.
SellQuantity_NoCap(quantity, s) == quantity

\* The quantity a sell executes: min(quantity, stock) when positive, else 0.
SellQuantity(quantity, s) ==
    LET q == Min(quantity, s)
    IN  IF q > 0 THEN q ELSE 0

\* A dispatch that treats every action but sell as a buy.
TradeKind_HoldBuys(action, quantity) ==
    IF quantity > 0 THEN (IF action = "sell" THEN "sell" ELSE "buy") ELSE "none"

\* The branch execute_trade takes.
TradeKind(action, quantity) ==
    IF action = "buy" /\ quantity > 0 THEN "buy"
    ELSE IF action = "sell" /\ quantity > 0 THEN "sell"
    ELSE "none"

\* A trade whose buy adds the shares without paying for them.
TradeResult_FreeShares(action, quantity, current_price, c, s) ==
    IF TradeKind(action, quantity) = "buy"
    THEN [cash |-> c, stock |-> s + BuyQuantity(quantity, current_price, c),
          ret |-> BuyQuantity(quantity, current_price, c)]
    ELSE IF TradeKind(action, quantity) = "sell"
    THEN [cash |-> c + SellQuantity(quantity, s) * current_price,
          stock |-> s - SellQuantity(quantity, s), ret |-> SellQuantity(quantity, s)]
    ELSE [cash |-> c, stock |-> s, ret |-> 0]

\* The portfolio after execute_trade and its return value.
TradeResult(action, quantity, current_price, c, s) ==
    LET kind == TradeKind(action, quantity)
        b == BuyQuantity(quantity, current_price, c)
        q == SellQuantity(quantity, s)
    IN  CASE kind = "buy"  -> [cash |-> c - b * current_price, stock |-> s + b, ret |-> b]
          [] kind = "sell" -> [cash |-> c + q * current_price, stock |-> s - q, ret |-> q]
          [] OTHER         -> [cash |-> c, stock |-> s, ret |-> 0]

execute_trade(action, quantity, current_price) ==
    LET r == TradeResult(action, quantity, current_price, cash, stock)
    IN  /\ cash' = r.cash
        /\ stock' = r.stock
        /\ last' = [op |-> "execute_trade", action |-> action, quantity |-> quantity,
                    price |-> current_price, cash0 |-> cash, stock0 |-> stock,
                    options0 |-> options, ret |-> r.ret]
        /\ UNCHANGED options

----------------------------------------------------------------------------
(* Python values *)

EmptyDict == <<>>
Has(d, k) == k \in DOMAIN d

\* A quotient rounded away from zero.
TruncDiv_RoundsUp(a, b) == IF a >= 0 THEN (a + b - 1) \div b ELSE 0 - ((b - 1 - a) \div b)

\* int(a / b) for b > 0: the quotient truncated toward zero.
TruncDiv(a, b) == IF a >= 0 THEN a \div b ELSE 0 - ((0 - a) \div b)

\* A string is a tuple of one-character strings.
DigitValue == [c \in {"0", "1", "2", "3", "4", "5", "6", "7", "8", "9"} |->
                 CASE c = "0" -> 0 [] c = "1" -> 1 [] c = "2" -> 2 [] c = "3" -> 3
                   [] c = "4" -> 4 [] c = "5" -> 5 [] c = "6" -> 6 [] c = "7" -> 7
                   [] c = "8" -> 8 [] c = "9" -> 9]

ParseError == 0 - 1

\* s.split()[0]: the first run of non-blank characters (<<>> stands for the
\* IndexError of a blank string).
FirstToken(s) ==
    LET starts == {i \in 1..Len(s) : s[i] # " "}
    IN  IF starts = {} THEN <<>>
        ELSE LET a == CHOOSE i \in starts : \A j \in starts : i <= j
                 ends == {i \in a..Len(s) : s[i] = " "}
                 b == IF ends = {} THEN Len(s) + 1
                      ELSE CHOOSE i \in ends : \A j \in ends : i <= j
             IN  SubSeq(s, a, b - 1)

\* t.split("-")[0]: what precedes the first "-".
BeforeDash(t) ==
    LET dashes == {i \in 1..Len(t) : t[i] = "-"}
    IN  IF dashes = {} THEN t
        ELSE SubSeq(t, 1, (CHOOSE i \in dashes : \A j \in dashes : i <= j) - 1)

RECURSIVE DecimalValue(_)
DecimalValue(t) ==
    IF t = <<>> THEN 0
    ELSE 10 * DecimalValue(SubSeq(t, 1, Len(t) - 1)) + DigitValue[t[Len(t)]]

\* int(t) of a token without blanks or dashes: ParseError for the ValueError.
ToInt(t) ==
    IF t # <<>> /\ \A i \in 1..Len(t) : t[i] \in DOMAIN DigitValue
    THEN DecimalValue(t)
    ELSE ParseError

\* int(recommended_expiration.split()[0].split("-")[0])
ParseExpiryDays(s) ==
    IF FirstToken(s) = <<>> THEN ParseError ELSE ToInt(BeforeDash(FirstToken(s)))

----------------------------------------------------------------------------
(* Backtester.execute_options_trade *)

ContractSize == 100
MaxContracts == 5

\* Whether "call" occurs in the lower-cased strategy name, for the names the
\* model's recommendations use.
NameHasCall(name) == name \in {"Long Call", "Bull Call Spread", "Covered Call"}

SpreadEntry(strategy, implementation, current_price, current_date, c, opts, trades) ==
    LET noop == [cash |-> c, options |-> opts, trades |-> trades, cost |-> 0]
    IN  IF ~Has(implementation, "premium") \/ ~Has(implementation.premium, "target_premium")
        THEN noop
        ELSE
        LET buy_premium == implementation.premium.target_premium
        IN  IF buy_premium * ContractSize = 0 THEN noop
            ELSE
            LET contracts == Min(MaxContracts, TruncDiv(c, buy_premium * ContractSize))
                buy_leg == implementation.buy_leg
                sell_leg == implementation.sell_leg
            IN  IF contracts <= 0 THEN noop
                ELSE IF ~Has(buy_leg, "recommended_expiration") THEN noop
                ELSE IF ParseExpiryDays(buy_leg.recommended_expiration) = ParseError THEN noop
                ELSE
                LET expiry_date == current_date + ParseExpiryDays(buy_leg.recommended_expiration)
                IN  IF ~Has(buy_leg, "type") \/ ~Has(buy_leg, "recommended_strike") THEN noop
                    ELSE
                    LET withBuy == Append(opts,
                            [type |-> buy_leg.type, strike |-> buy_leg.recommended_strike,
                             contracts |-> contracts,
                             premium_paid |-> buy_premium * ContractSize * contracts,
                             expiry_date |-> expiry_date])
                    IN  IF ~Has(sell_leg, "type") \/ ~Has(sell_leg, "recommended_strike")
                        THEN [noop EXCEPT !.options = withBuy]
                        ELSE
                        LET withSell == Append(withBuy,
                                [type |-> sell_leg.type, strike |-> sell_leg.recommended_strike,
                                 contracts |-> 0 - contracts,
                                 premium_received |->
                                     implementation.premium.target_premium * ContractSize * contracts,
                                 expiry_date |-> expiry_date])
                            cost == (buy_premium - implementation.premium.target_premium)
                                        * ContractSize * contracts
                        IN  [cash |-> c - cost, options |-> withSell,
                             trades |-> IF cost > 0
                                        THEN Append(trades,
                                                 [date |-> current_date,
                                                  strategy |-> strategy.strategy,
                                                  price |-> current_price, type |-> "spread",
                                                  contracts |-> contracts, net_cost |-> cost,
                                                  expiry_date |-> expiry_date])
                                        ELSE trades,
                             cost |-> cost]

SingleEntry(strategy, implementation, current_price, current_date, c, opts, trades) ==
    LET noop == [cash |-> c, options |-> opts, trades |-> trades, cost |-> 0]
    IN  IF ~Has(implementation, "premium") \/ ~Has(implementation.premium, "target_premium")
        THEN noop
        ELSE
        LET premium == implementation.premium.target_premium
        IN  IF premium * ContractSize = 0 THEN noop
            ELSE
            LET contracts == Min(MaxContracts, TruncDiv(c, premium * ContractSize))
            IN  IF contracts <= 0 THEN noop
                ELSE IF ~Has(implementation, "recommended_expiration") THEN noop
                ELSE IF ParseExpiryDays(implementation.recommended_expiration) = ParseError
                     THEN noop
                ELSE IF ~Has(implementation, "recommended_strike") THEN noop
                ELSE
                LET expiry_date ==
                        current_date + ParseExpiryDays(implementation.recommended_expiration)
                    position_type == IF NameHasCall(strategy.strategy) THEN "call" ELSE "put"
                    cost == premium * ContractSize * contracts
                IN  [cash |-> c - cost,
                     options |-> Append(opts,
                         [type |-> position_type, strike |-> implementation.recommended_strike,
                          contracts |-> contracts, premium_paid |-> cost,
                          expiry_date |-> expiry_date]),
                     trades |-> IF cost > 0
                                THEN Append(trades,
                                         [date |-> current_date, strategy |-> strategy.strategy,
                                          price |-> current_price, type |-> "single",
                                          contracts |-> contracts, cost |-> cost,
                                          expiry_date |-> expiry_date])
                                ELSE trades,
                     cost |-> cost]

\* The portfolio and the trade records after execute_options_trade, and the
\* cost it returns; a caught exception returns 0 and keeps what was done
\* before it was raised.
OptionsTradeResult(strategy, current_price, current_date, c, opts, trades) ==
    LET noop == [cash |-> c, options |-> opts, trades |-> trades, cost |-> 0]
        implementation == IF Has(strategy, "implementation")
                          THEN strategy.implementation ELSE EmptyDict
    IN  IF DOMAIN strategy = {} THEN noop
        ELSE IF DOMAIN implementation = {} THEN noop
        ELSE IF ~Has(strategy, "strategy") THEN noop
        ELSE IF Has(implementation, "buy_leg") /\ Has(implementation, "sell_leg")
             THEN SpreadEntry(strategy, implementation, current_price, current_date,
                              c, opts, trades)
        ELSE IF Has(implementation, "strikes")
             THEN SingleEntry(strategy, implementation, current_price, current_date,
                              c, opts, trades)
        ELSE noop

execute_options_trade(strategy, current_price, current_date) ==
    LET r == OptionsTradeResult(strategy, current_price, current_date,
                                cash, options, options_trades)
    IN  /\ cash' = r.cash
        /\ options' = r.options
        /\ options_trades' = r.trades
        /\ last' = [op |-> "execute_options_trade", strategy |-> strategy,
                    date |-> current_date, cash0 |-> cash, options0 |-> options,
                    trades0 |-> options_trades, ret |-> r.cost]
        /\ UNCHANGED stock

----------------------------------------------------------------------------
(* Backtester.calculate_options_value *)

\* The value of a position at current_price.
PositionValue(position, current_price) ==
    IF position.type = "call"
    THEN Max(0, current_price - position.strike) * ContractSize * position.contracts
    ELSE Max(0, position.strike - current_price) * ContractSize * position.contracts

\* An expiry test that misses the expiry day itself.
Expired_Strict(position, current_date) == current_date > position.expiry_date

\* current_date >= expiry_date
Expired(position, current_date) == current_date >= position.expiry_date

RECURSIVE SumValues(_, _)
SumValues(positions, current_price) ==
    IF positions = <<>> THEN 0
    ELSE PositionValue(Head(positions), current_price)
             + SumValues(Tail(positions), current_price)

\* expired_positions, in list order.
ExpiredPositions(positions, current_date) ==
    SelectSeq(positions, LAMBDA p : Expired(p, current_date))

\* A removal that drops the head of the list, whatever it is.
RemoveFirst_Head(positions, x) == IF positions = <<>> THEN positions ELSE Tail(positions)

\* list.remove(x): without the first element equal to x.
RemoveFirst(positions, x) ==
    LET hits == {i \in 1..Len(positions) : positions[i] = x}
    IN  IF hits = {} THEN positions
        ELSE LET k == CHOOSE i \in hits : \A j \in hits : i <= j
             IN  SubSeq(positions, 1, k - 1) \o SubSeq(positions, k + 1, Len(positions))

\* A removal loop that removes nothing.
RemoveAll_KeepsAll(positions, expired) == positions

RECURSIVE RemoveAll(_, _)
RemoveAll(positions, expired) ==
    IF expired = <<>> THEN positions
    ELSE RemoveAll(RemoveFirst(positions, Head(expired)), Tail(expired))

\* The portfolio after calculate_options_value and the total it returns.
OptionsValueResult(current_price, current_date, c, opts) ==
    LET expired == ExpiredPositions(opts, current_date)
    IN  [cash |-> c + SumValues(expired, current_price),
         options |-> RemoveAll(opts, expired),
         total_value |-> SumValues(opts, current_price),
         expired |-> expired]

----------------------------------------------------------------------------
(* The decision agent's responses *)

None == [NoneType |-> TRUE]

\* The pieces of a response string: the opening fence (three backticks, json,
\* a line break), the closing fence (a line break, three backticks), a blank,
\* text that is no JSON, and the JSON text of a value.
FenceOpen == [t |-> "fence_open"]
FenceClose == [t |-> "fence_close"]
Blank == [t |-> " "]
Junk == [t |-> "junk"]
JsonText(v) == [t |-> "json", v |-> v]

RaiseAFC == [kind |-> "raise", afc |-> TRUE]
RaiseOther == [kind |-> "raise", afc |-> FALSE]
StrResponse(tokens) == [kind |-> "str", text |-> tokens]
ObjResponse(v) == [kind |-> "obj", value |-> v]

SafeDefault == [decision |-> [action |-> "hold", quantity |-> 0],
                analyst_signals |-> EmptyDict]

\* Lines 186-187: both fences replaced by nothing, then strip().
StripFences(text) ==
    LET body == SelectSeq(text, LAMBDA x : x # FenceOpen /\ x # FenceClose)
        inked == {i \in 1..Len(body) : body[i] # Blank}
    IN  IF inked = {} THEN <<>>
        ELSE SubSeq(body, CHOOSE i \in inked : \A j \in inked : i <= j,
                          CHOOSE i \in inked : \A j \in inked : i >= j)

\* json.loads succeeds on exactly one JSON document.
Parseable(text) == Len(text) = 1 /\ text[1].t = "json"

\* The analyst_signals mapping lifted from parsed["agent_signals"].
LiftSignals(signals) ==
    [a \in {signals[i].agent : i \in 1..Len(signals)} |->
        LET k == CHOOSE i \in 1..Len(signals) :
                     /\ signals[i].agent = a
                     /\ \A j \in 1..Len(signals) : signals[j].agent = a => j <= i
        IN  [signal |-> IF Has(signals[k], "signal") THEN signals[k].signal ELSE "unknown",
             confidence |-> IF Has(signals[k], "confidence")
                            THEN signals[k].confidence ELSE 0]]

\* What the inner try block makes of the agent's return value: the value
\* get_agent_decision returns, or an exception handed to the outer handler.
Normalize(resp) ==
    IF resp.kind = "obj" THEN [kind |-> "return", value |-> resp.value]
    ELSE LET text == StripFences(resp.text)
         IN  IF ~Parseable(text) THEN [kind |-> "return", value |-> SafeDefault]
             ELSE LET parsed_result == text[1].v
                  IN  IF ~Has(parsed_result, "agent_signals")
                      THEN [kind |-> "return",
                            value |-> [decision |-> parsed_result,
                                       analyst_signals |-> EmptyDict]]
                      ELSE IF \E i \in 1..Len(parsed_result.agent_signals) :
                                  ~Has(parsed_result.agent_signals[i], "agent")
                      THEN [kind |-> "raise"]
                      ELSE [kind |-> "return",
                            value |-> [decision |-> parsed_result,
                                       analyst_signals |->
                                           LiftSignals(parsed_result.agent_signals)]]

----------------------------------------------------------------------------
(* Backtester.get_agent_decision *)

MaxRetries == 3
RateCap == 8
Window == 60
MinSpacing == 6
AfcCooldown == 60

RECURSIVE Pow2(_)
Pow2(n) == IF n = 0 THEN 1 ELSE 2 * Pow2(n - 1)

\* Lines 151-164: the call count and the window start after the entry checks,
\* and the time slept for the window to end.
EntryWindow(current_time, count, start) ==
    LET count1 == IF current_time - start >= Window THEN 0 ELSE count
        start1 == IF current_time - start >= Window THEN current_time ELSE start
        wait_time == Window - (current_time - start1)
    IN  IF count1 >= RateCap /\ wait_time > 0
        THEN [count |-> 0, start |-> current_time + wait_time, sleep |-> wait_time]
        ELSE [count |-> count1, start |-> start1, sleep |-> 0]

\* A spacing check that never sleeps.
SpacingSleep_None(t, last_call) == 0

\* Lines 168-171: the time slept before an invocation.
SpacingSleep(t, last_call) ==
    IF last_call # 0 /\ t - last_call < MinSpacing
    THEN MinSpacing - (t - last_call)
    ELSE 0

\* A handler that retries without a bound on the last attempt.
AfterAttempt_NoGiveUp(att, resp) ==
    IF resp.kind = "raise" \/ Normalize(resp).kind = "raise"
    THEN [kind |-> "retry", sleep |-> 1, afc |-> FALSE]
    ELSE [kind |-> "return", value |-> Normalize(resp).value]

\* Lines 184-225: what follows the agent's response in attempt att: return a
\* value, go to the next attempt after a sleep, or leave the loop.
AfterAttempt(att, resp) ==
    IF resp.kind = "raise" /\ resp.afc
    THEN [kind |-> IF att + 1 < MaxRetries THEN "retry" ELSE "exhausted",
          sleep |-> AfcCooldown, afc |-> TRUE]
    ELSE IF resp.kind = "raise" \/ Normalize(resp).kind = "raise"
    THEN IF att = MaxRetries - 1
         THEN [kind |-> "return", value |-> SafeDefault]
         ELSE [kind |-> "retry", sleep |-> Pow2(att), afc |-> FALSE]
    ELSE [kind |-> "return", value |-> Normalize(resp).value]

----------------------------------------------------------------------------
(* The specification of the decision client: get_agent_decision called again
   and again on one Backtester, at any time after its construction, with an
   agent that answers or raises as it likes. *)

StartTime == 1
MaxTime == 75
IdleStep == 10
AgentSlow == 2

AgentDurations == {0, AgentSlow}

HoldDecision == [action |-> "hold", quantity |-> 0]

\* A decision with signals, and one whose signal record names no agent (the
\* KeyError of line 197 reaches the outer handler).
SignalledDecision ==
    [action |-> "hold", quantity |-> 0,
     agent_signals |-> <<[agent |-> "valuation", signal |-> "bullish"]>>]
UnnamedSignalDecision ==
    [action |-> "hold", quantity |-> 0, agent_signals |-> <<[signal |-> "bullish"]>>]

ClientResponses ==
    { RaiseAFC, RaiseOther,
      StrResponse(<<FenceOpen, JsonText(HoldDecision), FenceClose>>),
      StrResponse(<<Blank, JsonText(SignalledDecision), Blank>>),
      StrResponse(<<JsonText(UnnamedSignalDecision)>>),
      StrResponse(<<Junk>>),
      ObjResponse([decision |-> HoldDecision, analyst_signals |-> EmptyDict]) }

\* The invocation times of the last Window seconds, t being the latest.
Recent(invocations, t) == SelectSeq(Append(invocations, t), LAMBDA x : x > t - Window)

InitConstructed(initial_capital) ==
    /\ cash = initial_capital
    /\ stock = 0
    /\ options = <<>>
    /\ portfolio_values = <<>>
    /\ options_trades = <<>>
    /\ api_call_count = 0
    /\ api_window_start = StartTime
    /\ last_api_call = 0
    /\ now = StartTime
    /\ attempt = 0
    /\ output = None
    /\ current_date_str = 0
    /\ open_price = 0
    /\ options_value = 0
    /\ last = NoCall
    /\ hist = NoHist

InitClient ==
    /\ InitConstructed(MaxCapital)
    /\ nyse = Weekdays
    /\ pc = "idle"

\* Time passes between two calls of get_agent_decision.
Tick ==
    /\ pc = "idle"
    /\ now + IdleStep <= MaxTime
    /\ now' = now + IdleStep
    /\ UNCHANGED <<nyse, portfolioVars, portfolio_values, options_trades, api_call_count,
                   api_window_start, last_api_call, pc, attempt, output, loopVars,
                   last, hist>>

\* Lines 150-165: the entry of get_agent_decision, up to the loop.
EnterDecision ==
    /\ pc = "idle"
    /\ LET w == EntryWindow(now, api_call_count, api_window_start)
       IN  /\ now + w.sleep <= MaxTime
           /\ now' = now + w.sleep
           /\ api_call_count' = w.count
           /\ api_window_start' = w.start
           /\ hist' = [hist EXCEPT !.calls = 0, !.afc = 0, !.other = 0, !.backoffs = <<>>,
                                   !.waited = w.sleep]
    /\ pc' = "attempt"
    /\ attempt' = 0
    /\ UNCHANGED <<nyse, portfolioVars, portfolio_values, options_trades, last_api_call,
                   output, loopVars, last>>

\* Lines 166-225, one pass of the loop: the spacing sleep, the invocation of
\* the agent, which takes dur seconds and answers resp, and what follows it.
Invoke(resp, dur, kind) ==
    /\ LET t == now + SpacingSleep(now, last_api_call)
           after == AfterAttempt(attempt, resp)
           failed == resp.kind = "raise" \/ Normalize(resp).kind = "raise"
           done == t + dur + (IF after.kind = "return" THEN 0 ELSE after.sleep)
           reset == after.kind # "return" /\ after.afc
       IN  /\ after.kind = kind
           /\ done <= MaxTime
           /\ last_api_call' = t
           /\ now' = done
           /\ api_call_count' = IF reset THEN 0 ELSE api_call_count + 1
           /\ api_window_start' = IF reset THEN done ELSE api_window_start
           /\ hist' = [hist EXCEPT
                         !.invocations = Recent(hist.invocations, t),
                         !.calls = @ + 1,
                         !.afc = IF failed /\ reset THEN @ + 1 ELSE @,
                         !.other = IF failed /\ ~reset THEN @ + 1 ELSE @,
                         !.backoffs = IF after.kind = "retry" /\ ~after.afc
                                      THEN Append(@, after.sleep) ELSE @]
           /\ IF kind = "retry"
              THEN /\ attempt' = attempt + 1
                   /\ pc' = "attempt"
                   /\ UNCHANGED <<output, last>>
              ELSE /\ output' = IF kind = "return" THEN after.value ELSE None
                   /\ last' = [op |-> "get_agent_decision", ret |-> output',
                               how |-> IF kind = "exhausted" THEN "exhausted"
                                       ELSE IF failed THEN "gave_up"
                                       ELSE IF resp.kind = "str"
                                               /\ ~Parseable(StripFences(resp.text))
                                            THEN "unparseable"
                                       ELSE "parsed"]
                   /\ pc' = "returned"
                   /\ UNCHANGED attempt
    /\ UNCHANGED <<nyse, portfolioVars, portfolio_values, options_trades, loopVars>>

\* The agent's response ends the call with a value.
AttemptReturns ==
    /\ pc = "attempt"
    /\ \E resp \in ClientResponses, dur \in AgentDurations : Invoke(resp, dur, "return")

\* The agent raised and the loop goes on with the next attempt.
AttemptRetries ==
    /\ pc = "attempt"
    /\ \E resp \in ClientResponses, dur \in AgentDurations : Invoke(resp, dur, "retry")

\* The agent raised in the last pass and the loop ends without a return.
AttemptExhausts ==
    /\ pc = "attempt"
    /\ \E resp \in ClientResponses, dur \in AgentDurations : Invoke(resp, dur, "exhausted")

\* The caller has read the returned value.
Resume ==
    /\ pc = "returned"
    /\ pc' = "idle"
    /\ attempt' = 0
    /\ output' = None
    /\ last' = NoCall
    /\ hist' = [hist EXCEPT !.calls = 0, !.afc = 0, !.other = 0, !.backoffs = <<>>,
                            !.waited = 0]
    /\ UNCHANGED <<nyse, portfolioVars, portfolio_values, options_trades, clockVars, loopVars>>

NextClient ==
    Tick \/ EnterDecision \/ AttemptReturns \/ AttemptRetries \/ AttemptExhausts \/ Resume

SpecClient == InitClient /\ [][NextClient]_vars

----------------------------------------------------------------------------
(* Claims about the decision client, under SpecClient *)

\* C5: the agent is never invoked more than 8 times inside any rolling
\* 60-second interval: the invocations of the 60 seconds that end with the
\* latest one (it included) are at most RateCap.  The code counts calls per
\* fixed window and only at the entry of get_agent_decision, so this fails.
C5_AtMostCapPerWindow == Len(hist.invocations) <= RateCap

\* C6: any two consecutive invocations of the agent are at least 6 seconds
\* apart, in one call or across calls, whatever the call-count window says.
C6_MinSpacing ==
    \A i \in 1..(Len(hist.invocations) - 1) :
        hist.invocations[i + 1] - hist.invocations[i] >= 6

\* C6's case: a retry in the same call, invoked exactly 6 seconds after the
\* failed invocation (the 1-second backoff alone would not space them).
C6_Witness ==
    /\ pc = "attempt"
    /\ attempt = 2
    /\ hist.backoffs = <<1>>
    /\ Len(hist.invocations) >= 2
    /\ hist.invocations[Len(hist.invocations)]
           - hist.invocations[Len(hist.invocations) - 1] = 6

\* C7: with only non-rate-limit exceptions, a call invokes the agent at most
\* 3 times, sleeps 1 s after the first failure and 2 s after the second, and
\* after the third failure returns the safe default decision.
C7_ThreeAttemptsThenDefault ==
    hist.afc = 0 =>
        /\ hist.calls <= 3
        /\ hist.backoffs = SubSeq(<<1, 2>>, 1, Min(hist.other, 2))
        /\ hist.other = 3 =>
               /\ pc = "returned"
               /\ output = [decision |-> [action |-> "hold", quantity |-> 0],
                            analyst_signals |-> EmptyDict]

\* C7's case: a call that ended after three non-rate-limit failures.
C7_Witness ==
    /\ pc = "returned"
    /\ hist.afc = 0
    /\ hist.other = 3
    /\ hist.calls = 3

\* C8: a rate-limit failure does not consume one of the 3 attempts: a call
\* that ends without an answer of the agent has seen 3 other failures.  The
\* code's `continue` advances the for loop's attempt all the same, so this
\* fails.
C8_AfcKeepsAttempts ==
    (pc = "returned" /\ last.how \in {"gave_up", "exhausted"}) => hist.other = 3

\* C9: every call returns a decision record, never an absent value, and the
\* safe default when no attempt yielded a parseable response.  A rate-limit
\* failure in the last pass of the loop makes the code return None.
C9_AlwaysDecisionRecord ==
    pc = "returned" =>
        /\ output # None
        /\ Has(output, "decision")
        /\ last.how # "parsed" =>
               output = [decision |-> [action |-> "hold", quantity |-> 0],
                         analyst_signals |-> EmptyDict]

----------------------------------------------------------------------------
(* The specification of the trade execution: execute_trade called again and
   again with any action, quantity and price on a portfolio of any
   non-negative cash and shares, with or without an open option position. *)

OpenPut == [type |-> "put", strike |-> 2, contracts |-> 1,
            premium_paid |-> ContractSize, expiry_date |-> 3]

InitTrade ==
    /\ cash \in 0..MaxCapital
    /\ stock \in 0..MaxStock
    /\ options \in {<<>>, <<OpenPut>>}
    /\ nyse = Weekdays
    /\ portfolio_values = <<>>
    /\ options_trades = <<>>
    /\ api_call_count = 0
    /\ api_window_start = StartTime
    /\ last_api_call = 0
    /\ now = StartTime
    /\ attempt = 0
    /\ output = None
    /\ current_date_str = 0
    /\ open_price = 0
    /\ options_value = 0
    /\ last = NoCall
    /\ hist = NoHist
    /\ pc = "trading"

TradeCall ==
    /\ pc = "trading"
    /\ hist.calls < MaxCalls
    /\ \E action \in Actions, quantity \in Quantities, current_price \in Prices :
           execute_trade(action, quantity, current_price)
    /\ hist' = [hist EXCEPT !.calls = @ + 1]
    /\ UNCHANGED <<nyse, portfolio_values, options_trades, apiVars, loopVars, pc>>

NextTrade == TradeCall

SpecTrade == InitTrade /\ [][NextTrade]_vars

\* C1: from cash >= 0 and shares >= 0, cash >= 0 and shares >= 0 hold after
\* every execute_trade call, whatever the actions, quantities and prices.
C1_CashAndSharesNonNegative == cash >= 0 /\ stock >= 0

\* C1's case: after a first call, a buy asking for more than the cash pays
\* for has executed a part of the request.
C1_Witness ==
    /\ hist.calls >= 2
    /\ last.op = "execute_trade"
    /\ last.action = "buy"
    /\ last.quantity * last.price > last.cash0
    /\ last.ret > 0

\* C2: a buy of q > 0 at p > 0 executes q when q*p <= cash (q*p = cash leaves
\* cash 0) and floor(cash/p) otherwise; cash falls by executed*p, shares rise
\* by executed, and executed is the return value.
C2_BuyExecutes ==
    (last.op = "execute_trade" /\ last.action = "buy" /\ last.quantity > 0 /\ last.price > 0) =>
        LET executed == IF last.quantity * last.price <= last.cash0
                        THEN last.quantity
                        ELSE last.cash0 \div last.price
        IN  /\ last.ret = executed
            /\ cash = last.cash0 - executed * last.price
            /\ stock = last.stock0 + executed
            /\ last.ret <= last.quantity
            /\ last.quantity * last.price = last.cash0 => cash = 0

\* C2's case: a buy whose cost exceeds the cash and that executed
\* floor(cash/p) > 0 shares.
C2_Witness ==
    /\ last.op = "execute_trade"
    /\ last.action = "buy"
    /\ last.quantity * last.price > last.cash0
    /\ last.ret = last.cash0 \div last.price
    /\ last.ret > 0
    /\ cash > 0

\* C3: a sell of q > 0 executes min(q, shares held): selling more than held
\* executes the held quantity and leaves 0 shares; cash rises by executed*p;
\* with no holdings it returns 0 and changes nothing.
C3_SellExecutes ==
    (last.op = "execute_trade" /\ last.action = "sell" /\ last.quantity > 0) =>
        /\ last.ret = Min(last.quantity, last.stock0)
        /\ stock = last.stock0 - last.ret
        /\ cash = last.cash0 + last.ret * last.price
        /\ last.quantity > last.stock0 => stock = 0
        /\ last.stock0 = 0 =>
               /\ last.ret = 0
               /\ <<cash, stock, options>> = <<last.cash0, last.stock0, last.options0>>

\* C3's case: a sell of more shares than the positive holdings.
C3_Witness ==
    /\ last.op = "execute_trade"
    /\ last.action = "sell"
    /\ last.stock0 > 0
    /\ last.quantity > last.stock0
    /\ last.ret = last.stock0

\* C4: hold, any action other than buy and sell, or a quantity <= 0: the call
\* returns 0 and leaves cash, shares and the options list as they were.
C4_HoldIsNoOp ==
    (last.op = "execute_trade" /\ (last.action \notin {"buy", "sell"} \/ last.quantity <= 0)) =>
        /\ last.ret = 0
        /\ cash = last.cash0
        /\ stock = last.stock0
        /\ options = last.options0

\* C4's case: a hold asking for a positive quantity that the cash would pay
\* for, on a portfolio with an open option position.
C4_Witness ==
    /\ last.op = "execute_trade"
    /\ last.action = "hold"
    /\ last.quantity > 0
    /\ last.quantity * last.price <= last.cash0
    /\ options # <<>>

----------------------------------------------------------------------------
(* The market calendar self.nyse: the set of its sessions. *)

IsTradingDay(d) == d \in nyse

RECURSIVE Schedule(_, _)
\* nyse.schedule(start_date, end_date).index
Schedule(start_date, end_date) ==
    IF start_date > end_date THEN <<>>
    ELSE (IF IsTradingDay(start_date) THEN <<start_date>> ELSE <<>>)
             \o Schedule(start_date + 1, end_date)

\* Backtester.is_market_open
is_market_open(date) == Schedule(date, date) # <<>>

\* Backtester.get_previous_trading_day: None for an empty schedule, the
\* second-to-last session otherwise (an IndexError when there is only one).
get_previous_trading_day(date) ==
    LET schedule == Schedule(date - Lookback, date)
    IN  IF schedule = <<>> THEN None
        ELSE IF Len(schedule) < 2 THEN [raised |-> "IndexError"]
        ELSE [date |-> schedule[Len(schedule) - 1]]

----------------------------------------------------------------------------
(* The specification of a backtest: run_backtest over the sessions of
   [StartDate, EndDate], with any opening price or none on each date and a
   decision agent that answers or raises as it likes.  The clock and the
   call-count bookkeeping of get_agent_decision decide when the agent is
   invoked, not what the call returns; SpecClient models them and they stay
   as constructed here. *)

InitialCapital == 600
LowPrice == 1
HighPrice == 3
Strike == 2

OpenPrices == {LowPrice, HighPrice}

Str13 == <<"1", "-", "3", " ", "D", "T", "E">>
Str24 == <<"2", "-", "4", " ", "D", "T", "E">>

LongPut ==
    [strategy |-> "Long Put",
     implementation |-> [strikes |-> <<Strike>>, premium |-> [target_premium |-> 1],
                         recommended_strike |-> Strike, recommended_expiration |-> Str13]]

BullCallSpread ==
    [strategy |-> "Bull Call Spread",
     implementation |->
         [buy_leg |-> [type |-> "call", recommended_strike |-> LowPrice,
                       recommended_expiration |-> Str24],
          sell_leg |-> [type |-> "call", recommended_strike |-> Strike,
                        recommended_expiration |-> Str24],
          premium |-> [target_premium |-> 1]]]

\* A credit spread: the sold call is the one nearer the money.
BearCallSpread ==
    [strategy |-> "Bear Call Spread",
     implementation |->
         [buy_leg |-> [type |-> "call", recommended_strike |-> HighPrice,
                       recommended_expiration |-> Str13],
          sell_leg |-> [type |-> "call", recommended_strike |-> LowPrice,
                        recommended_expiration |-> Str13],
          premium |-> [target_premium |-> 1]]]

NoStrategy == [strategy |-> "No strategy recommended"]

Decisions ==
    { HoldDecision,
      [action |-> "buy", quantity |-> 2, options_strategy |-> NoStrategy],
      [action |-> "sell", quantity |-> 1],
      [action |-> "hold", quantity |-> 0, options_strategy |-> LongPut],
      [action |-> "hold", quantity |-> 0, options_strategy |-> BullCallSpread],
      [action |-> "hold", quantity |-> 0, options_strategy |-> BearCallSpread] }

BacktestResponses ==
    { RaiseAFC, RaiseOther, StrResponse(<<Junk>>),
      ObjResponse([action |-> "buy", quantity |-> 1]) }
    \cup { StrResponse(<<FenceOpen, JsonText(d), FenceClose>>) : d \in Decisions }

\* The agent returning {action: hold, quantity: 0} and no options strategy.
HoldResponse == StrResponse(<<FenceOpen, JsonText(HoldDecision), FenceClose>>)

InitBacktest ==
    /\ InitConstructed(InitialCapital)
    /\ nyse \in {Weekdays, Reopening}
    /\ pc = "loop"

\* The dates of the loop that follow the current one.
DatesLeft == SelectSeq(Schedule(StartDate, EndDate), LAMBDA d : d > current_date_str)

\* Whether run_backtest leaves the date before it fetches a price.
NoSession(date) == ~is_market_open(date) \/ get_previous_trading_day(date) = None

\* Lines 380-403: the next date of the loop is skipped: the market is closed,
\* there is no previous trading day, or the price data is unavailable.
SkipDate ==
    /\ pc = "loop"
    /\ DatesLeft # <<>>
    /\ ~Has(get_previous_trading_day(Head(DatesLeft)), "raised")
    /\ current_date_str' = Head(DatesLeft)
    /\ UNCHANGED <<nyse, portfolioVars, portfolio_values, options_trades, apiVars, pc,
                   open_price, options_value, last, hist>>

\* Line 388 on a session that is the only one of its lookback window:
\* schedule.index[-2] raises IndexError, which ends run_backtest.
CalendarRaises ==
    /\ pc = "loop"
    /\ DatesLeft # <<>>
    /\ Has(get_previous_trading_day(Head(DatesLeft)), "raised")
    /\ current_date_str' = Head(DatesLeft)
    /\ pc' = "raised"
    /\ UNCHANGED <<nyse, portfolioVars, portfolio_values, options_trades, apiVars,
                   open_price, options_value, last, hist>>

\* Lines 380-400: the next date of the loop has a price.
FetchPrice ==
    /\ pc = "loop"
    /\ DatesLeft # <<>>
    /\ ~NoSession(Head(DatesLeft))
    /\ ~Has(get_previous_trading_day(Head(DatesLeft)), "raised")
    /\ current_date_str' = Head(DatesLeft)
    /\ \E p \in OpenPrices : open_price' = p
    /\ pc' = "decide"
    /\ attempt' = 0
    /\ last' = NoCall
    /\ hist' = [hist EXCEPT !.priced = @ \cup {Head(DatesLeft)}]
    /\ UNCHANGED <<nyse, portfolioVars, portfolio_values, options_trades, clockVars, output,
                   options_value>>

\* Line 393: the days between lookback_start and the current date.
LookbackDays == 365

\* Lines 176-182 as called from line 406: the dates the agent is invoked
\* with on the current date.
AgentDates(date) ==
    [on |-> date,
     start_date |-> date - LookbackDays,
     end_date |-> get_previous_trading_day(date).date]

\* Line 406, one pass of get_agent_decision's loop.
Decide(resp, kind) ==
    LET after == AfterAttempt(attempt, resp)
    IN  /\ after.kind = kind
        /\ IF kind = "retry"
           THEN /\ attempt' = attempt + 1
                /\ UNCHANGED <<output, pc, last>>
           ELSE /\ output' = IF kind = "return" THEN after.value ELSE None
                /\ last' = [op |-> "get_agent_decision", ret |-> output']
                /\ pc' = "trade"
                /\ UNCHANGED attempt
        /\ hist' = [hist EXCEPT !.onlyHold = @ /\ resp = HoldResponse,
                                !.asked = @ \cup {AgentDates(current_date_str)},
                                !.delivered = IF kind = "return" THEN resp ELSE @]
        /\ UNCHANGED <<nyse, portfolioVars, portfolio_values, options_trades, clockVars,
                       loopVars>>

DecideReturns ==
    /\ pc = "decide"
    /\ \E resp \in BacktestResponses : Decide(resp, "return")

DecideRetries ==
    /\ pc = "decide"
    /\ \E resp \in BacktestResponses : Decide(resp, "retry")

DecideExhausts ==
    /\ pc = "decide"
    /\ \E resp \in BacktestResponses : Decide(resp, "exhausted")

\* Line 409: output.get("decision", {"action": "hold", "quantity": 0})
AgentDecision(out) == IF Has(out, "decision") THEN out.decision ELSE HoldDecision

\* Line 409 on None: the AttributeError ends run_backtest.
OutputIsNone ==
    /\ pc = "trade"
    /\ output = None
    /\ pc' = "raised"
    /\ UNCHANGED <<nyse, portfolioVars, portfolio_values, options_trades, apiVars, loopVars,
                   last, hist>>

\* Lines 409-411: the stock trade of the day.
Trade ==
    /\ pc = "trade"
    /\ output # None
    /\ LET agent_decision == AgentDecision(output)
           action == IF Has(agent_decision, "action") THEN agent_decision.action ELSE "hold"
           quantity == IF Has(agent_decision, "quantity") THEN agent_decision.quantity ELSE 0
       IN  execute_trade(action, quantity, open_price)
    /\ pc' = "options"
    /\ UNCHANGED <<nyse, portfolio_values, options_trades, apiVars, loopVars, hist>>

\* Lines 414-416: the decision recommends an options strategy.
Recommended(agent_decision) ==
    /\ Has(agent_decision, "options_strategy")
    /\ ~(/\ Has(agent_decision.options_strategy, "strategy")
         /\ agent_decision.options_strategy.strategy = "No strategy recommended")

\* Lines 414-416: the options entry of the day.
EnterOptions ==
    /\ pc = "options"
    /\ Recommended(AgentDecision(output))
    /\ execute_options_trade(AgentDecision(output).options_strategy, open_price,
                             current_date_str)
    /\ pc' = "settle"
    /\ UNCHANGED <<nyse, portfolio_values, apiVars, loopVars, hist>>

\* Lines 417-418: no strategy is recommended.
NoOptions ==
    /\ pc = "options"
    /\ ~Recommended(AgentDecision(output))
    /\ pc' = "settle"
    /\ UNCHANGED <<nyse, portfolioVars, portfolio_values, options_trades, apiVars, loopVars,
                   last, hist>>

\* The positions of before that after holds fewer times.
Removed(before, after) ==
    {before[i] : i \in {j \in 1..Len(before) :
        Cardinality({k \in 1..Len(before) : before[k] = before[j]})
            > Cardinality({k \in 1..Len(after) : after[k] = before[j]})}}

\* Line 421: calculate_options_value values the open positions and settles
\* the expired ones.
Settle ==
    /\ pc = "settle"
    /\ LET r == OptionsValueResult(open_price, current_date_str, cash, options)
       IN  /\ cash' = r.cash
           /\ options' = r.options
           /\ options_value' = r.total_value
           /\ last' = [op |-> "calculate_options_value", date |-> current_date_str,
                       price |-> open_price, cash0 |-> cash, options0 |-> options,
                       ret |-> r.total_value]
           /\ hist' = [hist EXCEPT
                         !.simulated = @ \cup {current_date_str},
                         !.settled = @ \cup {[position |-> x, date |-> current_date_str] :
                                                 x \in Removed(options, r.options)}]
    /\ pc' = "record"
    /\ UNCHANGED <<nyse, stock, portfolio_values, options_trades, apiVars, current_date_str,
                   open_price>>

\* stock_value and total_value of lines 422-423.
StockValue == stock * open_price

\* A total that leaves the cash out.
TotalValue_WithoutCash == StockValue + options_value

TotalValue == cash + StockValue + options_value

\* A daily return measured from the first snapshot.
DailyReturn_FromFirst(total_value, values) ==
    IF values = <<>> THEN [num |-> 0, den |-> 1]
    ELSE [num |-> (total_value - values[1].PortfolioValue) * 100,
          den |-> values[1].PortfolioValue]

\* Line 432: (total_value / previous - 1) * 100 as the fraction num / den,
\* previous being the portfolio value of the last snapshot; 0 when there is
\* no snapshot yet.
DailyReturn(total_value, values) ==
    IF values = <<>> THEN [num |-> 0, den |-> 1]
    ELSE LET previous == values[Len(values)].PortfolioValue
         IN  [num |-> (total_value - previous) * 100, den |-> previous]

\* Lines 426-433: the day's snapshot; the daily return (total_value /
\* previous - 1) * 100 is kept as the fraction num / den.
Record ==
    /\ pc = "record"
    /\ IF portfolio_values = <<>> THEN TRUE
       ELSE portfolio_values[Len(portfolio_values)].PortfolioValue # 0
    /\ portfolio_values' = Append(portfolio_values,
           [Date |-> current_date_str,
            PortfolioValue |-> TotalValue,
            StockValue |-> StockValue,
            OptionsValue |-> options_value,
            Cash |-> cash,
            DailyReturn |-> DailyReturn(TotalValue, portfolio_values)])
    /\ pc' = "loop"
    /\ output' = None
    /\ last' = NoCall
    /\ hist' = [hist EXCEPT !.delivered = NoHist.delivered]
    /\ UNCHANGED <<nyse, portfolioVars, options_trades, clockVars, attempt, loopVars>>

\* Line 432 with a previous portfolio value of 0: the ZeroDivisionError ends
\* run_backtest.
RecordDivides ==
    /\ pc = "record"
    /\ portfolio_values # <<>>
    /\ portfolio_values[Len(portfolio_values)].PortfolioValue = 0
    /\ pc' = "raised"
    /\ UNCHANGED <<nyse, portfolioVars, portfolio_values, options_trades, apiVars, loopVars,
                   last, hist>>

\* Line 443: the dates are exhausted and analyze_performance runs.
Analyze ==
    /\ pc = "loop"
    /\ DatesLeft = <<>>
    /\ pc' = "analyzed"
    /\ UNCHANGED <<nyse, portfolioVars, portfolio_values, options_trades, apiVars, loopVars,
                   last, hist>>

Next ==
    \/ SkipDate
    \/ CalendarRaises
    \/ FetchPrice
    \/ DecideReturns
    \/ DecideRetries
    \/ DecideExhausts
    \/ OutputIsNone
    \/ Trade
    \/ EnterOptions
    \/ NoOptions
    \/ Settle
    \/ Record
    \/ RecordDivides
    \/ Analyze

Spec == InitBacktest /\ [][Next]_vars

----------------------------------------------------------------------------
(* Claims about the backtest, under Spec *)

\* The lower bound of the "N-M DTE" range of a recommendation of the model.
C10_LowerBound(strategy) ==
    LET implementation == strategy.implementation
        text == IF Has(implementation, "buy_leg")
                THEN implementation.buy_leg.recommended_expiration
                ELSE implementation.recommended_expiration
    IN  CASE text = <<"1", "-", "3", " ", "D", "T", "E">> -> 1
          [] text = <<"2", "-", "4", " ", "D", "T", "E">> -> 2

\* C10: a position expires on E = entry date + the lower bound of its
\* "N-M DTE" range and leaves the options list in the revalue-and-settle step
\* of the first simulated day whose date is >= E (day E itself when it is
\* simulated), in no earlier step: no open position has seen such a step, and
\* every settled one was settled on or after E with no such step before.
C10_SettledOnFirstDayFromExpiry ==
    /\ \A i \in 1..Len(options) : \A d \in hist.simulated : d < options[i].expiry_date
    /\ \A s \in hist.settled :
           /\ s.date >= s.position.expiry_date
           /\ \A d \in hist.simulated : ~(s.position.expiry_date <= d /\ d < s.date)
    /\ (last.op = "execute_options_trade" /\ Len(options) > Len(last.options0)) =>
           \A i \in (Len(last.options0) + 1)..Len(options) :
               options[i].expiry_date = last.date + C10_LowerBound(last.strategy)

\* C10's case: one position was settled on its expiry day, another one on the
\* first simulated day after its expiry day, which had no price.
C10_Witness ==
    /\ \E s \in hist.settled : s.date = s.position.expiry_date
    /\ \E s \in hist.settled :
           /\ s.date > s.position.expiry_date
           /\ s.position.expiry_date \notin hist.simulated
    /\ pc = "record"

\* The intrinsic value of a position at a price: max(0, price - strike) for a
\* call, max(0, strike - price) for a put, times 100, times the signed
\* number of contracts.
C11_Intrinsic(position, price) ==
    (IF position.type = "call"
     THEN (IF price > position.strike THEN price - position.strike ELSE 0)
     ELSE (IF position.strike > price THEN position.strike - price ELSE 0))
        * 100 * position.contracts

\* How many times a list holds a position.
C11_Count(positions, x) == Cardinality({i \in 1..Len(positions) : positions[i] = x})

RECURSIVE C11_Credit(_, _, _, _)
\* The intrinsic values, at price, of the positions of xs that before holds
\* and after does not, each copy counted.
C11_Credit(xs, before, after, price) ==
    IF xs = {} THEN 0
    ELSE LET x == CHOOSE y \in xs : TRUE
         IN  (C11_Count(before, x) - C11_Count(after, x)) * C11_Intrinsic(x, price)
                 + C11_Credit(xs \ {x}, before, after, price)

\* C11: an opened position's intrinsic value at the settlement day's price is
\* added to cash exactly once, in the step that removes the position from the
\* options list, and never again: the revalue-and-settle step only removes
\* positions, removes every position that has reached its expiry date, and
\* changes cash by exactly the intrinsic values of the positions it removes;
\* no other step removes or changes a position of the list.
C11_SettledExactlyOnce ==
    [][IF pc = "settle"
       THEN /\ \A i \in 1..Len(options) :
                   C11_Count(options', options[i]) <= C11_Count(options, options[i])
            /\ \A i \in 1..Len(options') :
                   /\ C11_Count(options, options'[i]) > 0
                   /\ options'[i].expiry_date > current_date_str
            /\ cash' - cash =
                   C11_Credit({options[i] : i \in 1..Len(options)}, options, options',
                              open_price)
       ELSE /\ Len(options') >= Len(options)
            /\ \A i \in 1..Len(options) : options'[i] = options[i]]_vars

\* C11's case: a settlement has just removed a position and changed cash by
\* its value, on a day later than an earlier settlement.
C11_Witness ==
    /\ pc = "record"
    /\ last.op = "calculate_options_value"
    /\ Len(options) < Len(last.options0)
    /\ cash # last.cash0
    /\ \E s \in hist.settled : s.date < current_date_str


----------------------------------------------------------------------------
(* The specification of the options entry: execute_options_trade called
   again and again with any recommendation, well formed or not, at any price
   and on any date, on a portfolio of any cash. *)

CashStep == 50
MaxCashSteps == 13
MaxEntries == 2

OptionCash == {k * CashStep : k \in 0..MaxCashSteps}
EntryDates == {StartDate, EndDate}

StrSoon == <<"s", "o", "o", "n">>

LongCall ==
    [strategy |-> "Long Call",
     implementation |-> [strikes |-> <<Strike>>, premium |-> [target_premium |-> 2],
                         recommended_strike |-> Strike, recommended_expiration |-> Str24]]

\* A spread whose legs carry their own premiums next to the target premium.
PricedSpread ==
    [strategy |-> "Bear Put Spread",
     implementation |->
         [buy_leg |-> [type |-> "put", recommended_strike |-> HighPrice, premium |-> 2,
                       recommended_expiration |-> Str13],
          sell_leg |-> [type |-> "put", recommended_strike |-> Strike, premium |-> 1,
                        recommended_expiration |-> Str13],
          premium |-> [target_premium |-> 2]]]

\* An iron condor: neither two legs nor strikes.
IronCondor ==
    [strategy |-> "Iron Condor",
     implementation |-> [call_side |-> [sell_strike |-> Strike, buy_strike |-> HighPrice],
                         premium |-> [target_premium |-> 1],
                         recommended_expiration |-> Str13]]

NoImplementation == [strategy |-> "Long Put"]
EmptyImplementation == [strategy |-> "Long Put", implementation |-> EmptyDict]

\* Recommendations with a field missing or unparseable.
UnnamedSingle == [implementation |-> LongPut.implementation]
UnnamedSpread == [implementation |-> BullCallSpread.implementation]
SingleNoPremium ==
    [strategy |-> "Long Put",
     implementation |-> [strikes |-> <<Strike>>, recommended_strike |-> Strike,
                         recommended_expiration |-> Str13]]
SingleNoStrike ==
    [strategy |-> "Long Put",
     implementation |-> [strikes |-> <<Strike>>, premium |-> [target_premium |-> 1],
                         recommended_expiration |-> Str13]]
SingleBadExpiration ==
    [LongPut EXCEPT !.implementation.recommended_expiration = StrSoon]
SpreadNoPremium ==
    [strategy |-> "Bull Call Spread",
     implementation |-> [buy_leg |-> BullCallSpread.implementation.buy_leg,
                         sell_leg |-> BullCallSpread.implementation.sell_leg]]
SpreadBadExpiration ==
    [BullCallSpread EXCEPT !.implementation.buy_leg.recommended_expiration = StrSoon]
SpreadNoBuyType ==
    [BullCallSpread EXCEPT !.implementation.buy_leg =
        [recommended_strike |-> LowPrice, recommended_expiration |-> Str24]]
SpreadNoSellType ==
    [BullCallSpread EXCEPT !.implementation.sell_leg =
        [recommended_strike |-> Strike, recommended_expiration |-> Str24]]
SpreadNoSellStrike ==
    [BullCallSpread EXCEPT !.implementation.sell_leg =
        [type |-> "call", recommended_expiration |-> Str24]]

MalformedRecommendations ==
    { UnnamedSingle, UnnamedSpread, SingleNoPremium, SingleNoStrike, SingleBadExpiration,
      SpreadNoPremium, SpreadBadExpiration, SpreadNoBuyType, SpreadNoSellType,
      SpreadNoSellStrike }

Recommendations ==
    { LongPut, LongCall, BullCallSpread, PricedSpread, IronCondor, NoImplementation,
      EmptyImplementation } \cup MalformedRecommendations

InitOptions ==
    /\ \E c \in OptionCash : InitConstructed(c)
    /\ nyse = Weekdays
    /\ pc = "entering"

OptionsCall ==
    /\ pc = "entering"
    /\ hist.calls < MaxEntries
    /\ \E strategy \in Recommendations, current_price \in OpenPrices,
          current_date \in EntryDates :
           execute_options_trade(strategy, current_price, current_date)
    /\ hist' = [hist EXCEPT !.calls = @ + 1]
    /\ UNCHANGED <<nyse, portfolio_values, apiVars, loopVars, pc>>

NextOptions == OptionsCall

SpecOptions == InitOptions /\ [][NextOptions]_vars

----------------------------------------------------------------------------
(* Claims about the options entry, under SpecOptions *)

\* A recommendation that execute_options_trade handles as a two-leg spread.
C12_IsSpread(strategy) ==
    /\ Has(strategy, "implementation")
    /\ Has(strategy.implementation, "buy_leg")
    /\ Has(strategy.implementation, "sell_leg")

\* C12: a call that handles a two-leg spread and adds any position adds
\* exactly two: a long leg of +c contracts and a short leg of -c contracts,
\* c > 0, with the same expiry date; never one leg alone.
C12_SpreadAddsBothLegs ==
    (/\ last.op = "execute_options_trade"
     /\ C12_IsSpread(last.strategy)
     /\ Len(options) > Len(last.options0)) =>
        /\ Len(options) = Len(last.options0) + 2
        /\ options[Len(options) - 1].contracts > 0
        /\ options[Len(options)].contracts = 0 - options[Len(options) - 1].contracts
        /\ options[Len(options)].expiry_date = options[Len(options) - 1].expiry_date

\* C13: a spread entry that opens c > 0 contracts, of legs that carry the
\* premiums buy_premium and sell_premium, debits cash by
\* (buy_premium - sell_premium) * 100 * c and returns that amount.
C13_SpreadDebitsNetPremium ==
    (/\ last.op = "execute_options_trade"
     /\ C12_IsSpread(last.strategy)
     /\ Has(last.strategy.implementation.buy_leg, "premium")
     /\ Has(last.strategy.implementation.sell_leg, "premium")
     /\ Len(options) = Len(last.options0) + 2) =>
        LET c == options[Len(options) - 1].contracts
            net == (last.strategy.implementation.buy_leg.premium
                        - last.strategy.implementation.sell_leg.premium) * 100 * c
        IN  /\ last.cash0 - cash = net
            /\ last.ret = net

\* The well-formed single-leg recommendations, their premium positive.
C14_SingleLegs == {LongPut, LongCall}

\* C14: a single-leg entry with premium > 0 opens min(5, floor(cash /
\* (premium * 100))) contracts of the cash at hand; if that is > 0 it appends
\* exactly one position and debits premium * 100 * contracts, never more than
\* 5 contracts and never below zero cash; if it is 0 nothing changes.
C14_SingleLegEntry ==
    (last.op = "execute_options_trade" /\ last.strategy \in C14_SingleLegs) =>
        LET premium == last.strategy.implementation.premium.target_premium
            afford == last.cash0 \div (premium * 100)
            contracts == IF afford < 5 THEN afford ELSE 5
        IN  IF contracts > 0
            THEN /\ Len(options) = Len(last.options0) + 1
                 /\ SubSeq(options, 1, Len(last.options0)) = last.options0
                 /\ options[Len(options)].contracts = contracts
                 /\ contracts <= 5
                 /\ cash = last.cash0 - premium * 100 * contracts
                 /\ cash >= 0
                 /\ last.ret = premium * 100 * contracts
            ELSE /\ options = last.options0
                 /\ cash = last.cash0
                 /\ options_trades = last.trades0
                 /\ last.ret = 0

\* C14's case: two entries, one that the cap of 5 contracts limits although
\* the cash pays for more, one that the cash limits to fewer than 5.
C14_Witness ==
    /\ last.op = "execute_options_trade"
    /\ last.strategy \in C14_SingleLegs
    /\ Len(options) = 2
    /\ options[1].contracts = 5
    /\ options[2].contracts \in 1..4
    /\ last.cash0 \div (last.strategy.implementation.premium.target_premium * 100)
           = options[2].contracts
    /\ cash > 0

\* C15: a recommendation with a missing or unparseable field (strategy name,
\* premium, leg type, leg strike, expiration) returns cost 0 and leaves cash,
\* the options list and the options trade records as they were.
C15_MalformedIsNoOp ==
    (last.op = "execute_options_trade" /\ last.strategy \in MalformedRecommendations) =>
        /\ last.ret = 0
        /\ cash = last.cash0
        /\ options = last.options0
        /\ options_trades = last.trades0


----------------------------------------------------------------------------
(* Claims about the portfolio and the snapshots of a backtest, under Spec *)

\* C16: in every reachable state of a backtest run, after any stock trades,
\* option entries and settlements, short legs in the money included,
\* portfolio cash is never negative.
C16_CashNeverNegative == cash >= 0

\* The dates of the snapshots.
C17_Dates == {portfolio_values[i].Date : i \in 1..Len(portfolio_values)}

\* C17: the snapshot series holds at most one entry per date, in strictly
\* increasing date order, and once a day of the loop is over (the loop is at
\* its head, or run_backtest has ended) it holds exactly one entry for each
\* trading day that had price data and none for any other day.
C17_OneSnapshotPerPricedDay ==
    /\ \A i \in 1..(Len(portfolio_values) - 1) :
           portfolio_values[i].Date < portfolio_values[i + 1].Date
    /\ C17_Dates \subseteq hist.priced
    /\ pc \in {"loop", "analyzed", "raised"} => C17_Dates = hist.priced

\* C18: the first snapshot's daily return is exactly 0; every later one
\* equals (value_t / value_prev - 1) * 100 with value_prev the portfolio value
\* of the snapshot emitted just before it, whether or not dates were skipped
\* in between (num / den = (value_t - value_prev) * 100 / value_prev).
C18_DailyReturn ==
    \A i \in 1..Len(portfolio_values) :
        LET r == portfolio_values[i].DailyReturn
        IN  /\ r.den # 0
            /\ IF i = 1 THEN r.num = 0
               ELSE LET value_prev == portfolio_values[i - 1].PortfolioValue
                        value_t == portfolio_values[i].PortfolioValue
                    IN  /\ value_prev # 0
                        /\ r.num * value_prev = (value_t - value_prev) * 100 * r.den

\* C18's case: three snapshots, a date without snapshot between two of them,
\* and a daily return other than 0 right after the gap.
C18_Witness ==
    /\ Len(portfolio_values) >= 3
    /\ \E i \in 2..Len(portfolio_values) :
           /\ portfolio_values[i].Date > portfolio_values[i - 1].Date + 1
           /\ portfolio_values[i].DailyReturn.num # 0
           /\ portfolio_values[i - 1].PortfolioValue # portfolio_values[1].PortfolioValue

RECURSIVE C19_ValueOnce(_, _)
\* The intrinsic values of a list of positions at a price, each counted once.
C19_ValueOnce(positions, price) ==
    IF positions = <<>> THEN 0
    ELSE C11_Intrinsic(Head(positions), price) + C19_ValueOnce(Tail(positions), price)

\* C19: on a day when a position is settled the day's total counts the
\* settled value once: the total reported after the revalue-and-settle step
\* is the cash before that step, the stock value and the value of every
\* position held before the step, settled or still open, each once.
C19_SettledValueCountedOnce ==
    (pc = "record" /\ last.op = "calculate_options_value") =>
        TotalValue = last.cash0 + stock * open_price
                         + C19_ValueOnce(last.options0, open_price)

\* C20: while the agent has returned {action: hold, quantity: 0} without an
\* options strategy on every day, whatever the prices, every snapshot has
\* portfolio value and cash equal to the initial capital, no share is held,
\* the options list is empty, and once a day is over the number of snapshots
\* is the number of trading days of the range so far that had price data.
C20_AlwaysHoldKeepsCapital ==
    hist.onlyHold =>
        /\ cash = InitialCapital
        /\ stock = 0
        /\ options = <<>>
        /\ \A i \in 1..Len(portfolio_values) :
               /\ portfolio_values[i].PortfolioValue = InitialCapital
               /\ portfolio_values[i].Cash = InitialCapital
               /\ portfolio_values[i].StockValue = 0
               /\ portfolio_values[i].OptionsValue = 0
        /\ pc \in {"loop", "analyzed", "raised"} =>
               Len(portfolio_values) = Cardinality(hist.priced)

\* C20's case: the run is over, every trading day of the range had a price and
\* a hold decision, at a low price on one day and a high price on another.
C20_Witness ==
    /\ hist.onlyHold
    /\ pc = "analyzed"
    /\ Len(portfolio_values) = Len(Schedule(StartDate, EndDate))
    /\ Len(portfolio_values) >= 4


----------------------------------------------------------------------------
(* Claims about the loop of run_backtest, under Spec *)

\* No session lies in the lookback window before the date.
C21_NoPreviousDay(date) == \A d \in (date - Lookback)..(date - 1) : d \notin nyse

\* C21: a date whose price data is unavailable, or which has no previous
\* trading day, is skipped entirely: a step that leaves the head of the loop
\* without going on to the agent's decision moves to the next date with cash,
\* shares, options list, trade records and snapshots unchanged, and a date
\* without previous trading day is left by such a step.
C21_UnavailableDateIsSkipped ==
    [][(pc = "loop" /\ DatesLeft # <<>>) =>
          /\ C21_NoPreviousDay(Head(DatesLeft)) => pc' # "decide"
          /\ pc' # "decide" =>
                 /\ pc' = "loop"
                 /\ current_date_str' = Head(DatesLeft)
                 /\ UNCHANGED <<cash, stock, options, options_trades, portfolio_values>>]_vars


\* C22: run_backtest never terminates early on an error within a day:
\* whatever the prices, the agent's outcomes, the recommendations and the
\* portfolio values, no step of a day ends the run with an exception, so that
\* every date is visited and control reaches analyze_performance.
C22_NoEarlyTermination == pc # "raised"


----------------------------------------------------------------------------
(* The specification of the construction: Backtester(...) called once with
   any dates, any initial capital and any ticker. *)

\* A ticker is a string (a tuple of characters) or a value of another type.
TickerUS == [str |-> <<"A", "A", "P", "L">>]
TickerCN == [str |-> <<"6", "0", "0", "5", "1", "9">>]
TickerEmpty == [str |-> <<>>]
TickerUnusual == [str |-> <<"A", "$", "1">>]
TickerNumber == [int |-> 600519]

Tickers == {TickerUS, TickerCN, TickerEmpty, TickerUnusual, TickerNumber}
Capitals == (0 - 1)..MaxCapital
Dates == StartDate..EndDate

Letters == {"A", "B", "C", "D", "E", "F", "G", "H", "I", "J", "K", "L", "M",
            "N", "O", "P", "Q", "R", "S", "T", "U", "V", "W", "X", "Y", "Z"}

\* str.isalpha and str.isdigit: a non-empty string of letters, of digits.
isalpha(t) == t # <<>> /\ \A i \in 1..Len(t) : t[i] \in Letters
isdigit(t) == t # <<>> /\ \A i \in 1..Len(t) : t[i] \in DOMAIN DigitValue

\* A ticker test that lets the empty string pass.
TickerRejected_TypeOnly(ticker) == ~Has(ticker, "str")

\* Line 88: not isinstance(self.ticker, str) or len(self.ticker) == 0
TickerRejected(ticker) == ~Has(ticker, "str") \/ Len(ticker.str) = 0

\* Line 91: the ticker is neither alphabetic nor six digits.
TickerUnusualFormat(ticker) ==
    ~(isalpha(ticker.str) \/ (Len(ticker.str) = 6 /\ isdigit(ticker.str)))

\* Backtester.validate_inputs: the ValueError it raises, or whether it logged
\* the warning of line 92.
validate_inputs(start_date, end_date, initial_capital, ticker) ==
    IF start_date >= end_date
    THEN [raised |-> "Start date must be earlier than end date"]
    ELSE IF initial_capital <= 0
    THEN [raised |-> "Initial capital must be greater than 0"]
    ELSE IF TickerRejected(ticker)
    THEN [raised |-> "Invalid stock code format"]
    ELSE [warned |-> TickerUnusualFormat(ticker)]

InitUnconstructed ==
    /\ cash = 0
    /\ stock = 0
    /\ options = <<>>
    /\ portfolio_values = <<>>
    /\ options_trades = <<>>
    /\ api_call_count = 0
    /\ api_window_start = 0
    /\ last_api_call = 0
    /\ now = StartTime
    /\ attempt = 0
    /\ output = None
    /\ current_date_str = 0
    /\ open_price = 0
    /\ options_value = 0
    /\ nyse = {}
    /\ last = NoCall
    /\ hist = NoHist
    /\ pc = "unconstructed"

\* Backtester.__init__: the fields are assigned (lines 38-62), then
\* validate_inputs runs (line 65); when it raises no object is returned.
Construct ==
    /\ pc = "unconstructed"
    /\ \E start_date \in Dates, end_date \in Dates, initial_capital \in Capitals,
          ticker \in Tickers :
           LET v == validate_inputs(start_date, end_date, initial_capital, ticker)
           IN  /\ cash' = initial_capital
               /\ api_window_start' = now
               /\ nyse' = Weekdays
               /\ pc' = IF Has(v, "raised") THEN "invalid" ELSE "constructed"
               /\ last' = [op |-> "__init__", start_date |-> start_date,
                           end_date |-> end_date, initial_capital |-> initial_capital,
                           ticker |-> ticker, ret |-> v]
    /\ UNCHANGED <<stock, options, portfolio_values, options_trades, api_call_count,
                   last_api_call, now, attempt, output, loopVars, hist>>

NextConstruct == Construct

SpecConstruct == InitUnconstructed /\ [][NextConstruct]_vars

----------------------------------------------------------------------------
(* Claims about the construction, under SpecConstruct *)

\* A ticker that is no non-empty string, or a string in none of the formats
\* the validation knows (alphabetic, six digits).
C23_Malformed(ticker) ==
    \/ ~Has(ticker, "str")
    \/ ticker.str = <<>>
    \/ /\ \E i \in 1..Len(ticker.str) : ticker.str[i] \notin Letters
       /\ ~(Len(ticker.str) = 6
            /\ \A i \in 1..Len(ticker.str) : ticker.str[i] \in DOMAIN DigitValue)

----------------------------------------------------------------------------
(* The specification of the calendar lookup: get_previous_trading_day called
   with any date on any calendar of the days around its lookback window. *)

QueryDates == {EndDate, EndDate + 1}
CalendarSpan == (EndDate - Lookback - 1)..(EndDate + 1)

InitCalendar ==
    /\ InitConstructed(InitialCapital)
    /\ nyse \in SUBSET CalendarSpan
    /\ pc = "calendar"

PreviousDayCall ==
    /\ pc = "calendar"
    /\ \E date \in QueryDates :
           last' = [op |-> "get_previous_trading_day", date |-> date,
                    ret |-> get_previous_trading_day(date)]
    /\ UNCHANGED <<nyse, portfolioVars, portfolio_values, options_trades, apiVars,
                   loopVars, pc, hist>>

NextCalendar == PreviousDayCall

SpecCalendar == InitCalendar /\ [][NextCalendar]_vars

\* The sessions of the lookback window of a date that lie before the date.
C24_SessionsBefore(date) == {d \in (date - Lookback)..(date - 1) : d \in nyse}

\* C24: for any date D, get_previous_trading_day(D) returns the latest
\* trading day strictly before D of the 10-day lookback window, and None,
\* raising nothing, when the window holds no session before D.
C24_LatestSessionBefore ==
    last.op = "get_previous_trading_day" =>
        IF C24_SessionsBefore(last.date) = {}
        THEN last.ret = None
        ELSE last.ret = [date |-> CHOOSE d \in C24_SessionsBefore(last.date) :
                                      \A e \in C24_SessionsBefore(last.date) : e <= d]


----------------------------------------------------------------------------
(* Further claims about the options entry, under SpecOptions *)

\* C25: the options trade records are append-only and gain exactly one
\* record for every execute_options_trade call that adds positions to the
\* portfolio, of kind single for a single leg and of kind spread for a spread
\* (one record, not one per leg); a call that opens no position adds none.
C25_OneRecordPerExecutedTrade ==
    last.op = "execute_options_trade" =>
        IF Len(options) > Len(last.options0)
        THEN /\ Len(options_trades) = Len(last.trades0) + 1
             /\ SubSeq(options_trades, 1, Len(last.trades0)) = last.trades0
             /\ options_trades[Len(options_trades)].type =
                    (IF C12_IsSpread(last.strategy) THEN "spread" ELSE "single")
        ELSE options_trades = last.trades0


----------------------------------------------------------------------------
(* Further claims about the loop of run_backtest, under Spec *)

\* C26: on every simulated day the agent is invoked with end_date equal to
\* decision_date, the previous trading day of the current date, and with
\* start_date equal to decision_date minus 365 calendar days.
C26_LookbackEndsAtDecisionDate ==
    \A a \in hist.asked :
        /\ a.end_date < a.on
        /\ a.end_date \in nyse
        /\ \A d \in (a.end_date + 1)..(a.on - 1) : d \notin nyse
        /\ a.start_date = a.end_date - 365


----------------------------------------------------------------------------
(* The specification of the settlement: calculate_options_value called at
   any price and date on any list of up to MaxOpen open positions, identical
   records included. *)

MaxOpen == 3

SettleDates == StartDate..(StartDate + 2)

LongPositions ==
    {[type |-> t, strike |-> Strike, contracts |-> 1, premium_paid |-> ContractSize,
      expiry_date |-> e] : t \in {"call", "put"}, e \in {StartDate + 1, StartDate + 2}}

ShortCall == [type |-> "call", strike |-> LowPrice, contracts |-> 0 - 1,
              premium_received |-> ContractSize, expiry_date |-> StartDate + 1]

OpenPositions == LongPositions \cup {ShortCall}

InitSettlement ==
    /\ cash = InitialCapital
    /\ stock = 0
    /\ \E n \in 0..MaxOpen : options \in [1..n -> OpenPositions]
    /\ portfolio_values = <<>>
    /\ options_trades = <<>>
    /\ api_call_count = 0
    /\ api_window_start = StartTime
    /\ last_api_call = 0
    /\ now = StartTime
    /\ attempt = 0
    /\ output = None
    /\ current_date_str = 0
    /\ open_price = 0
    /\ options_value = 0
    /\ nyse = Weekdays
    /\ last = NoCall
    /\ hist = NoHist
    /\ pc = "settling"

SettleCall ==
    /\ pc = "settling"
    /\ \E current_price \in OpenPrices, current_date \in SettleDates :
           LET r == OptionsValueResult(current_price, current_date, cash, options)
           IN  /\ cash' = r.cash
               /\ options' = r.options
               /\ last' = [op |-> "calculate_options_value", date |-> current_date,
                           price |-> current_price, cash0 |-> cash, options0 |-> options,
                           ret |-> r.total_value]
    /\ UNCHANGED <<nyse, stock, portfolio_values, options_trades, apiVars, loopVars, pc,
                   hist>>

NextSettle == SettleCall

SpecSettle == InitSettlement /\ [][NextSettle]_vars

\* C27: the revalue-and-settle step on date D leaves in the options list
\* exactly the positions whose expiry date is after D, unmodified and in
\* their original order, and none whose expiry date is <= D, also when
\* several positions expire in the step or two positions are identical.
C27_KeepsUnexpiredInOrder ==
    last.op = "calculate_options_value" =>
        options = SelectSeq(last.options0, LAMBDA p : p.expiry_date > last.date)

\* C27's case: two identical records expire in one step, with a position
\* between them that stays.
C27_Witness ==
    /\ last.op = "calculate_options_value"
    /\ Len(last.options0) = 3
    /\ last.options0[1] = last.options0[3]
    /\ last.options0[1].expiry_date <= last.date
    /\ last.options0[2].expiry_date > last.date
    /\ options = <<last.options0[2]>>


----------------------------------------------------------------------------
(* A further claim about the trade execution, under SpecTrade *)

\* C28: execute_trade conserves the total value at the trade price: for
\* every action, requested quantity and price p, cash + shares * p is the
\* same before and after the call.
C28_TradeConservesValue ==
    last.op = "execute_trade" =>
        cash + stock * last.price = last.cash0 + last.stock0 * last.price

\* C28's case: after a sell, a buy that the cash cut down has executed, both
\* at a price above 1.
C28_Witness ==
    /\ last.op = "execute_trade"
    /\ last.action = "buy"
    /\ last.price > 1
    /\ last.ret > 0
    /\ last.ret < last.quantity
    /\ cash > 0
    /\ hist.calls >= 2


----------------------------------------------------------------------------
(* Further claims about the snapshots and the decisions, under Spec *)

\* C29: whenever run_backtest computes the daily return of a non-first
\* snapshot, the previous snapshot's portfolio value is non-zero, also after
\* an option entry has spent all remaining cash on positions of intrinsic
\* value 0 while no shares are held.
C29_PreviousValueNonZero ==
    (pc = "record" /\ portfolio_values # <<>>) =>
        portfolio_values[Len(portfolio_values)].PortfolioValue # 0


\* The decision a response carries: the object itself, or the one JSON
\* document of the string.
C30_Carried(resp) ==
    IF resp.kind = "obj" THEN <<resp.value>>
    ELSE IF resp.kind = "str"
    THEN LET docs == SelectSeq(resp.text, LAMBDA x : x.t = "json")
         IN  IF Len(docs) = 1 THEN <<docs[1].v>> ELSE <<>>
    ELSE <<>>

\* C30: a decision delivered as a structured object {action, quantity,
\* options_strategy} drives the same stock trade as the identical decision
\* delivered as a JSON-encoded string: in either form the trade of the day is
\* execute_trade(action, quantity) of the decision delivered.
C30_BothFormsDriveTheDecision ==
    (/\ pc = "options"
     /\ last.op = "execute_trade"
     /\ C30_Carried(hist.delivered) # <<>>) =>
        /\ last.action = C30_Carried(hist.delivered)[1].action
        /\ last.quantity = C30_Carried(hist.delivered)[1].quantity


====
